---- MODULE Spec2Model ----
(***************************************************************************)
(* VeroType: decoding of the TrueType container.  A font file is a         *)
(* sequence of bytes; VeroBufReader is a cursor over it; the decoders      *)
(* (OffsetTable, TablesHeaders, Head, Name) read byte windows of the file  *)
(* and Tables::from_reader runs them one after the other.                  *)
(*                                                                         *)
(* Bytes are the integers 0..255.  A Rust slice buf[a..b] is               *)
(* SubSeq(buf, a+1, b).  A Rust Result is a record with kind "Ok" or       *)
(* "Err"; a panic (a failed unwrap, an out-of-range slice, an arithmetic   *)
(* overflow in a build with overflow checks) is the kind "Panic".          *)
(* Decoded integers are TLA+ integers: the sampled files keep every        *)
(* decoded value inside the model checker's 32-bit integer range.          *)
(***************************************************************************)
EXTENDS Integers, Sequences, FiniteSets, TLC

VARIABLES
    file,          \* the bytes behind the reader (B: Read + Seek)
    cursor,        \* VeroBufReader.inner's position in the file
    overflow_checks, \* build profile: TRUE when integer overflow panics
    pc,            \* position inside Tables::from_reader
    offset_table,  \* let offset_table (OffsetTable)
    headers,       \* let headers (TablesHeaders: inner is the BTreeMap)
    head_table,    \* let head_table (Head)
    name_table,    \* let name_table (Name)
    result,        \* what Tables::from_reader returned, or how it ended
    input,         \* argument of a direct call of a public pure function
    output,        \* what that call returned
    reads          \* the windows <<start, length>> the decoders have asked of
                   \* read_exact so far

vars == <<file, cursor, overflow_checks, pc, offset_table, headers,
          head_table, name_table, result, input, output, reads>>

(***************************************************************************)
(* Bounds of the model.                                                    *)
(***************************************************************************)
\* largest table count written in a sampled file's offset header
MaxTables == 3

\* the furthest position a direct call may move the reader's cursor to, and
\* the longest read and skip asked of it
MaxPos == 10

(***************************************************************************)
(* Values.                                                                 *)
(***************************************************************************)
None == [kind |-> "None"]

Ok(v) == [kind |-> "Ok", val |-> v]

Err(e) == [kind |-> "Err", err |-> e]

\* where: the expression that aborted the thread
Panic(where) == [kind |-> "Panic", at |-> where]

\* TableEncodingError::InvalidBufferLength(expected, actual)
InvalidBufferLength(expected, actual) ==
    [type |-> "TableEncodingError::InvalidBufferLength",
     expected |-> expected, actual |-> actual]

\* VeroBufReaderError::ReadError(io::Error), the io::Error's kind
ReadError(k) == [type |-> "VeroBufReaderError::ReadError", io |-> k]

\* VeroBufReaderError::FailedToSeek(io::Error)
FailedToSeek(k) == [type |-> "VeroBufReaderError::FailedToSeek", io |-> k]

Max(a, b) == IF a >= b THEN a ELSE b

Min(a, b) == IF a <= b THEN a ELSE b

\* 2^n, n >= 0
RECURSIVE Pow2(_)
Pow2(n) == IF n = 0 THEN 1 ELSE 2 * Pow2(n - 1)

\* Rust buf[a..b]; its index check is SliceInRange
Slice(buf, a, b) == SubSeq(buf, a + 1, b)

SliceInRange(buf, a, b) == a <= b /\ b <= Len(buf)

\* uN::from_be_bytes: most significant byte first
RECURSIVE from_be_bytes(_)
from_be_bytes(b) ==
    IF Len(b) = 0 THEN 0
    ELSE from_be_bytes(SubSeq(b, 1, Len(b) - 1)) * 256 + b[Len(b)]

\* iN::from_be_bytes: two's complement, the first byte carries the sign
RECURSIVE signed_tail(_, _)
signed_tail(acc, b) ==
    IF Len(b) = 0 THEN acc ELSE signed_tail(acc * 256 + b[1], Tail(b))

signed_from_be_bytes(b) ==
    signed_tail(IF b[1] >= 128 THEN b[1] - 256 ELSE b[1], Tail(b))

\* uN::to_be_bytes on n bytes (used to write files and to re-encode)
RECURSIVE to_be_bytes(_, _)
to_be_bytes(v, n) ==
    IF n = 0 THEN <<>>
    ELSE Append(to_be_bytes(v \div 256, n - 1), v % 256)

\* slice::chunks(n): consecutive pieces of n elements, the last one shorter
\* when the length is no multiple of n
RECURSIVE chunks(_, _)
chunks(buf, n) ==
    IF Len(buf) = 0 THEN <<>>
    ELSE IF Len(buf) <= n THEN <<buf>>
    ELSE <<SubSeq(buf, 1, n)>> \o chunks(SubSeq(buf, n + 1, Len(buf)), n)

(***************************************************************************)
(* buffer.rs: VeroBufReader over the bytes f with the cursor at cur.       *)
(***************************************************************************)
\* seek(SeekFrom::Start(pos)): any position is accepted, also past the end
seek_to(f, cur, pos) == [res |-> Ok(<<>>), cursor |-> pos, reads |-> <<>>]

\* seek(SeekFrom::Current(n)): a position before byte 0 is an error
skip(f, cur, n) ==
    IF cur + n < 0
    THEN [res |-> Err(FailedToSeek("InvalidInput")), cursor |-> cur, reads |-> <<>>]
    ELSE [res |-> Ok(<<>>), cursor |-> cur + n, reads |-> <<>>]

\* mutant: a read of no byte fails like any other read past the end
read_exact_of_nothing_fails(f, cur, n) ==
    IF cur + n <= Len(f)
    THEN [res |-> Ok(Slice(f, cur, cur + n)), cursor |-> cur + n,
          reads |-> <<(<<cur, n>>)>>]
    ELSE [res |-> Err(ReadError("UnexpectedEof")), cursor |-> Max(cur, Len(f)),
          reads |-> <<(<<cur, n>>)>>]

\* read_exact fills n bytes or fails with UnexpectedEof after consuming
\* what was left; reads: the window it was asked for
read_exact(f, cur, n) ==
    IF n = 0 THEN [res |-> Ok(<<>>), cursor |-> cur, reads |-> <<(<<cur, n>>)>>]
    ELSE IF cur + n <= Len(f)
    THEN [res |-> Ok(Slice(f, cur, cur + n)), cursor |-> cur + n,
          reads |-> <<(<<cur, n>>)>>]
    ELSE [res |-> Err(ReadError("UnexpectedEof")), cursor |-> Max(cur, Len(f)),
          reads |-> <<(<<cur, n>>)>>]

\* impl_read!: read_exact of size_of::<T>() bytes, then T::from_be_bytes
impl_read(f, cur, size, signed) ==
    LET r == read_exact(f, cur, size) IN
    IF r.res.kind # "Ok" THEN r
    ELSE [res |-> Ok(IF signed THEN signed_from_be_bytes(r.res.val)
                     ELSE from_be_bytes(r.res.val)),
          cursor |-> r.cursor, reads |-> r.reads]

read_i32(f, cur) == impl_read(f, cur, 4, TRUE)

read_u32(f, cur) == impl_read(f, cur, 4, FALSE)

read_i16(f, cur) == impl_read(f, cur, 2, TRUE)

read_u16(f, cur) == impl_read(f, cur, 2, FALSE)

read_i8(f, cur) == impl_read(f, cur, 1, TRUE)

read_u8(f, cur) == impl_read(f, cur, 1, FALSE)

(***************************************************************************)
(* tables/mod.rs: the tag registry.                                        *)
(***************************************************************************)
\* str::from_utf8(..).is_ok(): well-formed UTF-8 (no overlong forms, no
\* surrogates, nothing above U+10FFFF, no cut sequence)
RECURSIVE is_utf8(_)
is_utf8(s) ==
    IF Len(s) = 0 THEN TRUE
    ELSE LET b == s[1]
             n == Len(s)
             Cont(i) == i <= n /\ s[i] \in 128..191
             Rest(k) == is_utf8(SubSeq(s, k + 1, n))
         IN  IF b < 128 THEN Rest(1)
             ELSE IF b \in 194..223 THEN Cont(2) /\ Rest(2)
             ELSE IF b = 224 THEN n >= 2 /\ s[2] \in 160..191 /\ Cont(3) /\ Rest(3)
             ELSE IF b \in (225..236) \cup {238, 239} THEN Cont(2) /\ Cont(3) /\ Rest(3)
             ELSE IF b = 237 THEN n >= 2 /\ s[2] \in 128..159 /\ Cont(3) /\ Rest(3)
             ELSE IF b = 240
                  THEN n >= 2 /\ s[2] \in 144..191 /\ Cont(3) /\ Cont(4) /\ Rest(4)
             ELSE IF b \in 241..243 THEN Cont(2) /\ Cont(3) /\ Cont(4) /\ Rest(4)
             ELSE IF b = 244
                  THEN n >= 2 /\ s[2] \in 128..143 /\ Cont(3) /\ Cont(4) /\ Rest(4)
             ELSE FALSE

\* enum RequiredTables
RequiredTables ==
    {"Cmap", "Glyf", "Head", "Hhea", "Hmtx", "Loca", "Maxp", "Name", "Post"}

\* mutant: the arm of "loca" is missing
TagArms_without_loca ==
    << <<(<<99, 109, 97, 112>>), "Cmap">>,
       <<(<<103, 108, 121, 102>>), "Glyf">>,
       <<(<<104, 101, 97, 100>>), "Head">>,
       <<(<<104, 104, 101, 97>>), "Hhea">>,
       <<(<<104, 109, 116, 120>>), "Hmtx">>,
       <<(<<109, 97, 120, 112>>), "Maxp">>,
       <<(<<110, 97, 109, 101>>), "Name">>,
       <<(<<112, 111, 115, 116>>), "Post">> >>

\* the arms of the match in try_from: the text of a tag and its variant
TagArms ==
    << <<(<<99, 109, 97, 112>>), "Cmap">>,
       <<(<<103, 108, 121, 102>>), "Glyf">>,
       <<(<<104, 101, 97, 100>>), "Head">>,
       <<(<<104, 104, 101, 97>>), "Hhea">>,
       <<(<<104, 109, 116, 120>>), "Hmtx">>,
       <<(<<108, 111, 99, 97>>), "Loca">>,
       <<(<<109, 97, 120, 112>>), "Maxp">>,
       <<(<<110, 97, 109, 101>>), "Name">>,
       <<(<<112, 111, 115, 116>>), "Post">> >>

\* impl TryFrom<&[u8]> for RequiredTables: the unwrap of from_utf8 aborts on
\* bytes that are no text; text that matches no arm is Err(())
RequiredTables_try_from(value) ==
    IF ~is_utf8(value) THEN Panic("str::from_utf8(value).unwrap()")
    ELSE IF \E i \in 1..Len(TagArms) : TagArms[i][1] = value
    THEN Ok(TagArms[CHOOSE i \in 1..Len(TagArms) : TagArms[i][1] = value][2])
    ELSE Err("()")

(***************************************************************************)
(* tables/mod.rs: OffsetTable.                                             *)
(***************************************************************************)
\* mutant: search_range is read from the bytes of num_tables
OffsetTable_from_buffer_search_range_from_4(buf) ==
    IF Len(buf) # 12 THEN Err(InvalidBufferLength(12, Len(buf)))
    ELSE Ok([scalar_type    |-> from_be_bytes(Slice(buf, 0, 4)),
             num_tables     |-> from_be_bytes(Slice(buf, 4, 6)),
             search_range   |-> from_be_bytes(Slice(buf, 4, 6)),
             entry_selector |-> from_be_bytes(Slice(buf, 8, 10)),
             range_shift    |-> from_be_bytes(Slice(buf, 10, 12))])

OffsetTable_from_buffer(buf) ==
    IF Len(buf) # 12 THEN Err(InvalidBufferLength(12, Len(buf)))
    ELSE Ok([scalar_type    |-> from_be_bytes(Slice(buf, 0, 4)),
             num_tables     |-> from_be_bytes(Slice(buf, 4, 6)),
             search_range   |-> from_be_bytes(Slice(buf, 6, 8)),
             entry_selector |-> from_be_bytes(Slice(buf, 8, 10)),
             range_shift    |-> from_be_bytes(Slice(buf, 10, 12))])

\* mutant: the 12 bytes are read at the cursor, without the seek to 0
OffsetTable_from_reader_without_seek(f, cur) ==
    LET r == read_exact(f, cur, 12) IN
    IF r.res.kind # "Ok" THEN r
    ELSE [res |-> OffsetTable_from_buffer(r.res.val), cursor |-> r.cursor,
               reads |-> r.reads]

\* seek_to(0)?; read_exact(&mut [0u8; 12])?; Ok(Self::from_buffer(&buffer)?)
OffsetTable_from_reader(f, cur) ==
    LET s == seek_to(f, cur, 0)
        r == read_exact(f, s.cursor, 12)
    IN  IF s.res.kind # "Ok" THEN s
        ELSE IF r.res.kind # "Ok" THEN r
        ELSE [res |-> OffsetTable_from_buffer(r.res.val), cursor |-> r.cursor,
               reads |-> r.reads]

(***************************************************************************)
(* tables/mod.rs: TableMetadata and TablesHeaders.                         *)
(***************************************************************************)
TableMetadata_from_buffer(buf) ==
    IF Len(buf) # 16 THEN Err(InvalidBufferLength(16, Len(buf)))
    ELSE Ok([checksum |-> from_be_bytes(Slice(buf, 4, 8)),
             offset   |-> from_be_bytes(Slice(buf, 8, 12)),
             length   |-> from_be_bytes(Slice(buf, 12, 16))])

\* mutant: an existing key keeps its value
BTreeMap_insert_keeps_first(m, k, v) ==
    [x \in (DOMAIN m) \cup {k} |-> IF x \in DOMAIN m THEN m[x] ELSE v]

\* BTreeMap::insert: the value of an existing key is replaced
BTreeMap_insert(m, k, v) ==
    [x \in (DOMAIN m) \cup {k} |-> IF x = k THEN v ELSE m[x]]

\* BTreeMap::new()
BTreeMap_new == [x \in {} |-> None]

\* the for loop of TablesHeaders::from_reader from chunk i on, the map so
\* far being m: an unmatched tag is skipped, a matched one is inserted
RECURSIVE headers_loop(_, _, _)
headers_loop(cs, i, m) ==
    IF i > Len(cs) THEN Ok(m)
    ELSE LET raw_table == cs[i] IN
         IF ~SliceInRange(raw_table, 0, 4) THEN Panic("raw_table[0..4]")
         ELSE LET table_type == RequiredTables_try_from(Slice(raw_table, 0, 4))
                  metadata == TableMetadata_from_buffer(raw_table)
              IN  IF table_type.kind = "Panic" THEN table_type
                  ELSE IF table_type.kind = "Err" THEN headers_loop(cs, i + 1, m)
                  ELSE IF metadata.kind # "Ok" THEN metadata
                  ELSE headers_loop(cs, i + 1,
                           BTreeMap_insert(m, table_type.val, metadata.val))

\* mutant: read instead of read_exact, the zeroed buffer is filled as far as
\* the file goes and scanned all the same
TablesHeaders_from_reader_short_read(f, cur, num_tables) ==
    LET got == IF cur >= Len(f) THEN <<>>
               ELSE Slice(f, cur, Min(Len(f), cur + num_tables * 16))
        buffer == got \o [i \in 1..(num_tables * 16 - Len(got)) |-> 0]
        inner == headers_loop(chunks(buffer, 16), 1, BTreeMap_new)
    IN  [res |-> IF inner.kind = "Ok" THEN Ok([inner |-> inner.val]) ELSE inner,
         cursor |-> cur + Len(got), reads |-> <<(<<cur, Len(got)>>)>>]

\* read num_tables * 16 bytes at the cursor, then scan the 16-byte chunks
TablesHeaders_from_reader(f, cur, num_tables) ==
    LET r == read_exact(f, cur, num_tables * 16) IN
    IF r.res.kind # "Ok" THEN r
    ELSE LET inner == headers_loop(chunks(r.res.val, 16), 1, BTreeMap_new) IN
         [res |-> IF inner.kind = "Ok" THEN Ok([inner |-> inner.val]) ELSE inner,
          cursor |-> r.cursor, reads |-> r.reads]

\* TablesHeaders::get: Some(metadata) or None
TablesHeaders_get(self, k) ==
    IF k \in DOMAIN self.inner THEN Ok(self.inner[k]) ELSE None

(***************************************************************************)
(* tables/head.rs: HeadFlags and Head.                                     *)
(***************************************************************************)
\* a & b on unsigned integers
RECURSIVE BitAnd(_, _)
BitAnd(a, b) ==
    IF a = 0 \/ b = 0 THEN 0
    ELSE (a % 2) * (b % 2) + 2 * BitAnd(a \div 2, b \div 2)

\* a >> n
Shr(a, n) == a \div Pow2(n)

HeadFlags_from_bits(bits) == [bits |-> bits]

y_value_zero_is_baseline(self) == BitAnd(self.bits, 1) # 0

x_pos_leftmost_black_bit_lsb(self) == BitAnd(self.bits, 2) # 0

scaled_point_size_differs(self) == BitAnd(self.bits, 4) # 0

use_integer_scaling(self) == BitAnd(self.bits, 8) # 0

microsoft_scaler_flag(self) == BitAnd(self.bits, 16) # 0

\* mutant: the mask of bit 6 instead of bit 5
vertical_layout_with_mask_of_bit_6(self) == BitAnd(self.bits, 64) # 0

vertical_layout(self) == BitAnd(self.bits, 32) # 0

must_be_zero(self) == BitAnd(self.bits, 64) # 0

requires_linguistic_layout(self) == BitAnd(self.bits, 128) # 0

aat_default_metamorphosis(self) == BitAnd(self.bits, 256) # 0

strong_rtl_glyphs(self) == BitAnd(self.bits, 512) # 0

indic_rearrangement(self) == BitAnd(self.bits, 1024) # 0

\* ((bits & 0b0011_1000_0000_0000) >> 11) as u8
adobe_defined(self) == Shr(BitAnd(self.bits, 14336), 11) % 256

generic_symbol_font(self) == BitAnd(self.bits, 16384) # 0

bits(self) == self.bits

\* mutant: glyph_data_format is read from the bytes of index_to_loc_format
HeadLayout_glyph_data_format_from_50 ==
    << <<"version", 0, 4, "u">>,
       <<"font_revision", 4, 8, "u">>,
       <<"checksum_adjustment", 8, 12, "u">>,
       <<"magic_number", 12, 16, "u">>,
       <<"flags", 16, 18, "flags">>,
       <<"units_per_em", 18, 20, "u">>,
       <<"created", 20, 28, "i">>,
       <<"modified", 28, 36, "i">>,
       <<"x_min", 36, 38, "i">>,
       <<"y_min", 38, 40, "i">>,
       <<"x_max", 40, 42, "i">>,
       <<"y_max", 42, 44, "i">>,
       <<"mac_style", 44, 46, "u">>,
       <<"lowest_rec_ppem", 46, 48, "u">>,
       <<"font_direction_hint", 48, 50, "i">>,
       <<"index_to_loc_format", 50, 52, "i">>,
       <<"glyph_data_format", 50, 52, "i">> >>

\* the field initialisers of Head::from_reader in their order: field, first
\* byte, end, and how the bytes are read ("u": unsigned, "i": signed,
\* "flags": HeadFlags::from_bits of the unsigned value)
HeadLayout ==
    << <<"version", 0, 4, "u">>,
       <<"font_revision", 4, 8, "u">>,
       <<"checksum_adjustment", 8, 12, "u">>,
       <<"magic_number", 12, 16, "u">>,
       <<"flags", 16, 18, "flags">>,
       <<"units_per_em", 18, 20, "u">>,
       <<"created", 20, 28, "i">>,
       <<"modified", 28, 36, "i">>,
       <<"x_min", 36, 38, "i">>,
       <<"y_min", 38, 40, "i">>,
       <<"x_max", 40, 42, "i">>,
       <<"y_max", 42, 44, "i">>,
       <<"mac_style", 44, 46, "u">>,
       <<"lowest_rec_ppem", 46, 48, "u">>,
       <<"font_direction_hint", 48, 50, "i">>,
       <<"index_to_loc_format", 50, 52, "i">>,
       <<"glyph_data_format", 52, 54, "i">> >>

\* one initialiser: T::from_be_bytes(buf[lo..hi].try_into()?)
read_field(buf, f) ==
    LET raw == Slice(buf, f[2], f[3]) IN
    IF f[4] = "i" THEN signed_from_be_bytes(raw)
    ELSE IF f[4] = "flags" THEN HeadFlags_from_bits(from_be_bytes(raw))
    ELSE from_be_bytes(raw)

\* the struct expression of a decoder: the first initialiser whose slice is
\* out of range aborts, otherwise every field is read from its own range
decode_struct(buf, layout) ==
    IF \E i \in 1..Len(layout) : ~SliceInRange(buf, layout[i][2], layout[i][3])
    THEN LET i == CHOOSE j \in 1..Len(layout) :
                      /\ ~SliceInRange(buf, layout[j][2], layout[j][3])
                      /\ \A k \in 1..(j - 1) :
                             SliceInRange(buf, layout[k][2], layout[k][3])
         IN  Panic(<<"slice index out of range", layout[i][1]>>)
    ELSE Ok([n \in {layout[i][1] : i \in 1..Len(layout)} |->
                read_field(buf, layout[CHOOSE i \in 1..Len(layout) : layout[i][1] = n])])

\* seek_to(metadata.offset)?; read_exact(metadata.length bytes)?; Ok(Self {..})
\* mutant: the table is read at the cursor, without the seek to its offset
Head_from_reader_without_seek(f, cur, metadata) ==
    LET r == read_exact(f, cur, metadata.length) IN
    IF r.res.kind # "Ok" THEN r
    ELSE [res |-> decode_struct(r.res.val, HeadLayout), cursor |-> r.cursor,
          reads |-> r.reads]

Head_from_reader(f, cur, metadata) ==
    LET s == seek_to(f, cur, metadata.offset)
        r == read_exact(f, s.cursor, metadata.length)
    IN  IF s.res.kind # "Ok" THEN s
        ELSE IF r.res.kind # "Ok" THEN r
        ELSE [res |-> decode_struct(r.res.val, HeadLayout), cursor |-> r.cursor,
              reads |-> r.reads]

(***************************************************************************)
(* tables/name.rs: the identifier mappings, NameRecord and Name.           *)
(***************************************************************************)
PlatformId_from(value) ==
    CASE value = 0 -> "Unicode"
      [] value = 1 -> "Macintosh"
      [] value = 2 -> "Reserved"
      [] value = 3 -> "Microsoft"
      [] OTHER -> "Unknown"

\* mutant: the arm of 4 is missing
PlatformSpecificId_from_without_4(value) ==
    CASE value = 0 -> "Version1"
      [] value = 1 -> "Version1_1"
      [] value = 2 -> "Iso10646"
      [] value = 3 -> "Unicode2_0Bmp"
      [] OTHER -> "Unknown"

PlatformSpecificId_from(value) ==
    CASE value = 0 -> "Version1"
      [] value = 1 -> "Version1_1"
      [] value = 2 -> "Iso10646"
      [] value = 3 -> "Unicode2_0Bmp"
      [] value = 4 -> "Unicode2_0NonBmp"
      [] OTHER -> "Unknown"

\* Unknown(value) keeps the raw value; the other variants carry 0 here
TableFormat_from(value) ==
    CASE value = 0 -> [variant |-> "TrueType", raw |-> 0]
      [] value = 1 -> [variant |-> "OpenType", raw |-> 0]
      [] OTHER -> [variant |-> "Unknown", raw |-> value]

\* the field initialisers of NameRecord::from_buffer
NameRecordLayout ==
    << <<"platform_id", 0, 2, "u">>,
       <<"platform_specific_id", 2, 4, "u">>,
       <<"language_id", 4, 6, "u">>,
       <<"name_id", 6, 8, "u">>,
       <<"length", 8, 10, "u">>,
       <<"offset", 10, 12, "u">> >>

NameRecord_from_buffer(buf) ==
    LET d == decode_struct(buf, NameRecordLayout) IN
    IF d.kind # "Ok" THEN d
    ELSE Ok([d.val EXCEPT
                !.platform_id = PlatformId_from(d.val.platform_id),
                !.platform_specific_id =
                    PlatformSpecificId_from(d.val.platform_specific_id)])

\* an arithmetic result on u16: it aborts in a build with overflow checks
\* and wraps modulo 2^16 in a build without them
u16_checked(v, checks, what) ==
    IF v <= 65535 THEN Ok(v)
    ELSE IF checks THEN Panic(what)
    ELSE Ok(v % 65536)

\* usize::from(6 + count * 12), the product first
end_of_array_of(count, checks) ==
    LET product == u16_checked(count * 12, checks, "attempt to multiply with overflow")
    IN  IF product.kind # "Ok" THEN product
        ELSE u16_checked(6 + product.val, checks, "attempt to add with overflow")

\* .chunks(12).map(NameRecord::from_buffer).map(Result::unwrap).collect()
RECURSIVE collect_records(_, _, _)
collect_records(cs, i, acc) ==
    IF i > Len(cs) THEN Ok(acc)
    ELSE LET rec == NameRecord_from_buffer(cs[i]) IN
         IF rec.kind # "Ok" THEN rec
         ELSE collect_records(cs, i + 1, Append(acc, rec.val))

\* the body of Name::from_reader after the read: the header, the end of the
\* record array, the records and the string storage
Name_parse(buf, checks) ==
    IF ~SliceInRange(buf, 0, 2) THEN Panic(<<"slice index out of range", "format">>)
    ELSE IF ~SliceInRange(buf, 2, 4) THEN Panic(<<"slice index out of range", "count">>)
    ELSE IF ~SliceInRange(buf, 4, 6)
    THEN Panic(<<"slice index out of range", "string_offset">>)
    ELSE LET format == from_be_bytes(Slice(buf, 0, 2))
             count == from_be_bytes(Slice(buf, 2, 4))
             string_offset == from_be_bytes(Slice(buf, 4, 6))
             end_of_array == end_of_array_of(count, checks)
         IN  IF end_of_array.kind # "Ok" THEN end_of_array
             ELSE IF ~SliceInRange(buf, 6, end_of_array.val)
             THEN Panic(<<"slice index out of range", "array_buffer">>)
             ELSE LET records ==
                          collect_records(
                              chunks(Slice(buf, 6, end_of_array.val), 12), 1, <<>>)
                  IN  IF records.kind # "Ok" THEN records
                      ELSE Ok([format |-> TableFormat_from(format),
                               count |-> count,
                               string_offset |-> string_offset,
                               name_records |-> records.val,
                               name |-> Slice(buf, end_of_array.val, Len(buf))])

Name_from_reader(f, cur, metadata, checks) ==
    LET s == seek_to(f, cur, metadata.offset)
        r == read_exact(f, s.cursor, metadata.length)
    IN  IF s.res.kind # "Ok" THEN s
        ELSE IF r.res.kind # "Ok" THEN r
        ELSE [res |-> Name_parse(r.res.val, checks), cursor |-> r.cursor,
              reads |-> r.reads]

(***************************************************************************)
(* The sampled font files: an offset header announcing n tables, n         *)
(* directory records, a head table, a name table, and possibly a cut.      *)
(***************************************************************************)
\* the nine tags in ASCII
TagText ==
    [Cmap |-> <<99, 109, 97, 112>>, Glyf |-> <<103, 108, 121, 102>>,
     Head |-> <<104, 101, 97, 100>>, Hhea |-> <<104, 104, 101, 97>>,
     Hmtx |-> <<104, 109, 116, 120>>, Loca |-> <<108, 111, 99, 97>>,
     Maxp |-> <<109, 97, 120, 112>>, Name |-> <<110, 97, 109, 101>>,
     Post |-> <<112, 111, 115, 116>>]

\* tags written in the sampled records: the nine of the registry, text that
\* is no registry tag (one of them with a two-byte character), and bytes
\* that are no UTF-8 (a stray 0xFF, a cut two-byte sequence)
TagBytes(t) ==
    CASE t = "OS/2" -> <<79, 83, 47, 50>>
      [] t = "capital_Head" -> <<72, 101, 97, 100>>
      [] t = "e_acute" -> <<195, 169, 97, 98>>
      [] t = "stray_ff" -> <<255, 97, 98, 99>>
      [] t = "cut_sequence" -> <<104, 101, 97, 195>>
      [] OTHER -> TagText[t]

TextTags == RequiredTables \cup {"OS/2", "capital_Head", "e_acute"}

NotTextTags == {"stray_ff", "cut_sequence"}

\* head tables: the first is the layout of the reference manual's sample
\* with flags 0x0003; the second has the sign bit set in the signed fields
\* and no two fields alike
HeadBodies ==
    << <<0, 1, 0, 0,   0, 1, 0, 0,   18, 52, 86, 120,   95, 15, 60, 245,
         0, 3,   8, 0,
         0, 0, 0, 0, 124, 43, 77, 16,   0, 0, 0, 0, 125, 60, 94, 33,
         255, 156,   255, 56,   3, 232,   3, 132,
         0, 1,   0, 8,   0, 2,   0, 1,   0, 0>>,
       <<0, 2, 0, 5,   1, 2, 3, 4,   127, 255, 255, 255,   16, 32, 48, 64,
         64, 17,   64, 0,
         255, 255, 255, 255, 128, 0, 0, 1,   255, 255, 255, 255, 255, 255, 255, 254,
         128, 0,   127, 255,   0, 7,   255, 255,
         0, 33,   0, 9,   255, 254,   0, 0,   0, 1>> >>

\* name tables: two records and a pool; no record; three records announced
\* and two present; counts whose 6 + count * 12 passes 65535 (5462: to 14,
\* 16384: to 6); a table shorter than its header; unknown identifiers
NameRecordA == <<0, 3, 0, 1, 4, 9, 0, 1, 0, 4, 0, 0>>

NameRecordB == <<0, 1, 0, 0, 0, 0, 0, 2, 0, 2, 0, 2>>

NameRecordC == <<0, 9, 0, 4, 0, 5, 0, 6, 0, 1, 0, 3>>

NamePool == <<65, 66, 67, 68>>

NameBodies ==
    << <<0, 0, 0, 2, 0, 30>> \o NameRecordA \o NameRecordB \o NamePool,
       <<0, 1, 0, 0, 0, 6>> \o <<88, 89>>,
       <<0, 0, 0, 3, 0, 42>> \o NameRecordA \o NameRecordB \o NamePool,
       <<0, 0, 21, 86, 0, 30>> \o NameRecordA \o NameRecordB \o NamePool,
       <<0, 0, 64, 0, 0, 6>> \o NameRecordA \o NamePool,
       <<0, 0, 0, 1>>,
       <<0, 7, 0, 1, 0, 18>> \o NameRecordC \o NamePool >>

\* a name table of 65538 bytes: count 5461, its 5461 records of zeros and an
\* empty pool, so that 6 + count * 12 = 65538 is the table's length
BigNameBody == <<0, 0, 21, 85, 0, 0>> \o [i \in 1..65532 |-> 0]

AllNameBodies == NameBodies \o <<BigNameBody>>

\* where the tables of a file with n records start
HeadStart(n) == 12 + 16 * n

NameStart(n) == HeadStart(n) + 54

\* the locations written in the sampled records
LocOf(l, n, nb) ==
    CASE l = "head" -> [checksum |-> 287454020, offset |-> HeadStart(n), length |-> 54]
      [] l = "head_short" -> [checksum |-> 1, offset |-> HeadStart(n), length |-> 10]
      [] l = "head_long" -> [checksum |-> 2, offset |-> HeadStart(n), length |-> 56]
      [] l = "past_end" ->
             [checksum |-> 3, offset |-> NameStart(n),
              length |-> Len(AllNameBodies[nb]) + 1]
      [] l = "name" ->
             [checksum |-> 4, offset |-> NameStart(n),
              length |-> Len(AllNameBodies[nb])]

RecordBytes(k, n, nb) ==
    LET loc == LocOf(k[2], n, nb) IN
    TagBytes(k[1]) \o to_be_bytes(loc.checksum, 4)
        \o to_be_bytes(loc.offset, 4) \o to_be_bytes(loc.length, 4)

RECURSIVE Flatten(_)
Flatten(ss) == IF Len(ss) = 0 THEN <<>> ELSE Head(ss) \o Flatten(Tail(ss))

HeaderBytes(n) == <<0, 1, 0, 0>> \o to_be_bytes(n, 2) \o <<0, 16, 0, 0, 0, 0>>

WholeFile(sc) ==
    HeaderBytes(sc.n)
        \o Flatten([i \in 1..sc.n |-> RecordBytes(sc.recs[i], sc.n, sc.nb)])
        \o HeadBodies[sc.hb] \o AllNameBodies[sc.nb]

\* the number of bytes a cut leaves
KeepLen(sc) ==
    CASE sc.cut = "none" -> Len(WholeFile(sc))
      [] sc.cut = "header" -> 7
      [] sc.cut = "directory" -> Max(0, HeadStart(sc.n) - 5)
      [] sc.cut = "head" -> HeadStart(sc.n) + 30
      [] sc.cut = "name" -> Len(WholeFile(sc)) - 1

FileOf(sc) == SubSeq(WholeFile(sc), 1, KeepLen(sc))

\* records of the directory family
DirKinds ==
    {<<"Head", "head">>, <<"Head", "head_short">>, <<"Head", "past_end">>,
     <<"Name", "name">>, <<"Name", "head">>, <<"Cmap", "head">>,
     <<"OS/2", "name">>, <<"stray_ff", "head">>}

\* any table count up to MaxTables, any sequence of DirKinds records
DirScenarios ==
    UNION {[n : {n}, recs : [1..n -> DirKinds], hb : {1}, nb : {1},
            cut : {"none", "header", "directory"}] : n \in 0..MaxTables}

\* one record, any tag
TagScenarios ==
    [n : {1}, recs : {<<(<<t, "head">>)>> : t \in TextTags \cup NotTextTags},
     hb : {1}, nb : {1}, cut : {"none"}]

\* a head record and a name record, any tables behind them
BodyScenarios ==
    [n : {2},
     recs : {<<(<<"Head", h>>), (<<"Name", "name">>)>> :
                 h \in {"head", "head_short", "head_long"}}
            \cup {<<(<<"Name", "name">>), (<<"Head", "head">>)>>},
     hb : 1..Len(HeadBodies), nb : 1..Len(NameBodies),
     cut : {"none", "head", "name"}]

\* a head record and a name record, the name table of 65538 bytes
BigNameScenarios ==
    [n : {2}, recs : {<<(<<"Head", "head">>), (<<"Name", "name">>)>>},
     hb : {1}, nb : {Len(AllNameBodies)}, cut : {"none"}]

Scenarios == DirScenarios \cup TagScenarios \cup BodyScenarios

\* the file of the worked example: three records, head at offset 44 with
\* length 54 (bytes 44..98 are the third record and 38 bytes behind it),
\* name at offset 98 with length 34
ExampleFile ==
    HeaderBytes(3)
        \o TagBytes("Head") \o to_be_bytes(287454020, 4)
            \o to_be_bytes(44, 4) \o to_be_bytes(54, 4)
        \o TagBytes("Name") \o to_be_bytes(4, 4)
            \o to_be_bytes(98, 4) \o to_be_bytes(34, 4)
        \o TagBytes("Cmap") \o to_be_bytes(5, 4)
            \o to_be_bytes(132, 4) \o to_be_bytes(0, 4)
        \o SubSeq(HeadBodies[1], 17, 54) \o NameBodies[1]

SampledFiles == {FileOf(sc) : sc \in Scenarios} \cup {ExampleFile}

\* positions the reader may be at when it is handed to Tables::from_reader
StartCursors == {0, 7}

(***************************************************************************)
(* Tables::from_reader, one action per statement.                          *)
(***************************************************************************)
Init ==
    /\ file \in SampledFiles
    /\ cursor \in StartCursors
    /\ overflow_checks \in BOOLEAN
    /\ pc = "offset_table"
    /\ offset_table = None
    /\ headers = None
    /\ head_table = None
    /\ name_table = None
    /\ result = None
    /\ input = None
    /\ output = None
    /\ reads = <<>>

\* the ? operator on a failure, or the unwinding of a panic: the function
\* is left and nothing more is read
Leave(r) ==
    /\ pc' = IF r.kind = "Panic" THEN "panicked" ELSE "returned"
    /\ result' = r

\* let offset_table = OffsetTable::from_reader(reader)?;
ReadOffsetTable ==
    /\ pc = "offset_table"
    /\ LET r == OffsetTable_from_reader(file, cursor) IN
       /\ cursor' = r.cursor /\ reads' = reads \o r.reads
       /\ IF r.res.kind = "Ok"
          THEN /\ offset_table' = r.res.val
               /\ pc' = "headers"
               /\ UNCHANGED result
          ELSE /\ Leave(r.res)
               /\ UNCHANGED offset_table
    /\ UNCHANGED <<file, overflow_checks, headers, head_table, name_table,
                   input, output>>

\* let headers = TablesHeaders::from_reader(reader, offset_table.num_tables())?;
ReadHeaders ==
    /\ pc = "headers"
    /\ LET r == TablesHeaders_from_reader(file, cursor, offset_table.num_tables) IN
       /\ cursor' = r.cursor /\ reads' = reads \o r.reads
       /\ IF r.res.kind = "Ok"
          THEN /\ headers' = r.res.val
               /\ pc' = "head_table"
               /\ UNCHANGED result
          ELSE /\ Leave(r.res)
               /\ UNCHANGED headers
    /\ UNCHANGED <<file, overflow_checks, offset_table, head_table, name_table,
                   input, output>>

\* let head_table = Head::from_reader(reader, headers.get(Head).unwrap())?;
ReadHead ==
    /\ pc = "head_table"
    /\ LET metadata == TablesHeaders_get(headers, "Head") IN
       IF metadata.kind = "None"
       THEN /\ Leave(Panic("headers.get(RequiredTables::Head).unwrap()"))
            /\ UNCHANGED <<cursor, head_table, reads>>
       ELSE LET r == Head_from_reader(file, cursor, metadata.val) IN
            /\ cursor' = r.cursor /\ reads' = reads \o r.reads
            /\ IF r.res.kind = "Ok"
               THEN /\ head_table' = r.res.val
                    /\ pc' = "name_table"
                    /\ UNCHANGED result
               ELSE /\ Leave(r.res)
                    /\ UNCHANGED head_table
    /\ UNCHANGED <<file, overflow_checks, offset_table, headers, name_table,
                   input, output>>

\* let name_table = Name::from_reader(reader, headers.get(Name).unwrap())?;
\* println!(..); Ok(Self { offset: offset_table, head_table, headers })
ReadName ==
    /\ pc = "name_table"
    /\ LET metadata == TablesHeaders_get(headers, "Name") IN
       IF metadata.kind = "None"
       THEN /\ Leave(Panic("headers.get(RequiredTables::Name).unwrap()"))
            /\ UNCHANGED <<cursor, name_table, reads>>
       ELSE LET r == Name_from_reader(file, cursor, metadata.val, overflow_checks) IN
            /\ cursor' = r.cursor /\ reads' = reads \o r.reads
            /\ IF r.res.kind = "Ok"
               THEN /\ name_table' = r.res.val
                    /\ pc' = "returned"
                    /\ result' = Ok([offset |-> offset_table,
                                     head_table |-> head_table,
                                     headers |-> headers])
               ELSE /\ Leave(r.res)
                    /\ UNCHANGED name_table
    /\ UNCHANGED <<file, overflow_checks, offset_table, headers, head_table,
                   input, output>>

Next == ReadOffsetTable \/ ReadHeaders \/ ReadHead \/ ReadName

Spec == Init /\ [][Next]_vars

(***************************************************************************)
(* Direct calls of the public pure functions: the argument is drawn at the *)
(* start and one call is made.                                             *)
(***************************************************************************)
ScalarTypeSamples ==
    {<<0, 1, 0, 0>>, <<116, 114, 117, 101>>, <<79, 84, 84, 79>>, <<0, 0, 0, 0>>,
     <<127, 255, 255, 255>>}

U16Samples == {<<0, 0>>, <<0, 3>>, <<1, 0>>, <<128, 1>>, <<255, 255>>}

\* every combination of the sampled fields, and buffers of another length
OffsetBuffers ==
    {a \o b \o c \o d \o e :
        a \in ScalarTypeSamples, b \in U16Samples, c \in U16Samples,
        d \in U16Samples, e \in U16Samples}
    \cup {<<>>, <<0, 1, 0, 0, 0, 3, 0, 16, 0, 0, 0>>,
          <<0, 1, 0, 0, 0, 3, 0, 16, 0, 0, 0, 0, 0>>}

\* the buffer of the documentation example, variations of it, and buffers
\* of another length
MetadataBuffers ==
    {t \o <<18, 52, 86, 120>> \o o \o l :
        t \in {<<0, 0, 0, 0>>, <<104, 101, 97, 100>>},
        o \in {<<0, 1, 0, 0>>, <<0, 0, 0, 44>>},
        l \in {<<0, 0, 10, 0>>, <<0, 0, 0, 54>>}}
    \cup {<<>>, <<0, 0, 0, 0, 0, 0, 0, 0, 0, 0>>,
          <<0, 0, 0, 0, 0, 0, 0, 0, 0, 0, 0, 0, 0, 0, 0, 0, 0>>}

PureInputs ==
    [fn : {"OffsetTable::from_buffer"}, arg : OffsetBuffers]
    \cup [fn : {"TableMetadata::from_buffer"}, arg : MetadataBuffers]
    \cup [fn : {"HeadFlags::from_bits"}, arg : 0..65535]

InitPure ==
    /\ input \in PureInputs
    /\ output = None
    /\ file = <<>>
    /\ cursor = 0
    /\ overflow_checks = FALSE
    /\ pc = "idle"
    /\ offset_table = None
    /\ headers = None
    /\ head_table = None
    /\ name_table = None
    /\ result = None
    /\ reads = <<>>

NotCalling ==
    UNCHANGED <<file, cursor, overflow_checks, pc, offset_table, headers,
                head_table, name_table, result, input, reads>>

CallOffsetTableFromBuffer ==
    /\ input.fn = "OffsetTable::from_buffer"
    /\ output = None
    /\ output' = OffsetTable_from_buffer(input.arg)
    /\ NotCalling

CallTableMetadataFromBuffer ==
    /\ input.fn = "TableMetadata::from_buffer"
    /\ output = None
    /\ output' = TableMetadata_from_buffer(input.arg)
    /\ NotCalling

\* HeadFlags::from_bits, then every accessor on the value
CallHeadFlags ==
    /\ input.fn = "HeadFlags::from_bits"
    /\ output = None
    /\ LET self == HeadFlags_from_bits(input.arg) IN
       output' = Ok([bits |-> bits(self),
                     y_value_zero_is_baseline |-> y_value_zero_is_baseline(self),
                     x_pos_leftmost_black_bit_lsb |-> x_pos_leftmost_black_bit_lsb(self),
                     scaled_point_size_differs |-> scaled_point_size_differs(self),
                     use_integer_scaling |-> use_integer_scaling(self),
                     microsoft_scaler_flag |-> microsoft_scaler_flag(self),
                     vertical_layout |-> vertical_layout(self),
                     must_be_zero |-> must_be_zero(self),
                     requires_linguistic_layout |-> requires_linguistic_layout(self),
                     aat_default_metamorphosis |-> aat_default_metamorphosis(self),
                     strong_rtl_glyphs |-> strong_rtl_glyphs(self),
                     indic_rearrangement |-> indic_rearrangement(self),
                     adobe_defined |-> adobe_defined(self),
                     generic_symbol_font |-> generic_symbol_font(self)])
    /\ NotCalling

NextPure ==
    CallOffsetTableFromBuffer \/ CallTableMetadataFromBuffer \/ CallHeadFlags

SpecPure == InitPure /\ [][NextPure]_vars

(***************************************************************************)
(* VeroBufReader called directly: any sequence of seek_to, skip,           *)
(* read_exact and the scalar reads on a reader made from a byte sequence.  *)
(***************************************************************************)
\* the two byte sequences of the documentation examples, and one with the
\* sign bit set in some bytes
ReaderFiles ==
    {<<0, 0, 0, 10, 0, 0, 0, 20>>, <<10, 20, 30, 40, 50>>, <<0, 0, 255, 156, 1>>}

\* VeroBufReader::from_buffer: the cursor is at the first byte
InitReader ==
    /\ file \in ReaderFiles
    /\ cursor = 0
    /\ input = None
    /\ output = None
    /\ overflow_checks = FALSE
    /\ pc = "reader"
    /\ offset_table = None
    /\ headers = None
    /\ head_table = None
    /\ name_table = None
    /\ result = None
    /\ reads = <<>>

\* a call: what was called, with what, where the cursor was, what came back
Called(fn, arg, r) ==
    /\ input' = [fn |-> fn, arg |-> arg, at |-> cursor]
    /\ output' = r.res
    /\ cursor' = r.cursor
    /\ UNCHANGED <<file, overflow_checks, pc, offset_table, headers, head_table,
                   name_table, result, reads>>

SeekTo ==
    /\ pc = "reader"
    /\ \E pos \in 0..MaxPos : Called("seek_to", pos, seek_to(file, cursor, pos))

Skip ==
    /\ pc = "reader"
    /\ \E n \in (0 - MaxPos)..MaxPos :
           /\ cursor + n <= MaxPos
           /\ Called("skip", n, skip(file, cursor, n))

ReadExact ==
    /\ pc = "reader"
    /\ \E n \in 0..MaxPos : Called("read_exact", n, read_exact(file, cursor, n))

ReadI32 ==
    /\ pc = "reader"
    /\ Called("read_i32", 4, read_i32(file, cursor))

ReadU32 ==
    /\ pc = "reader"
    /\ Called("read_u32", 4, read_u32(file, cursor))

ReadI16 ==
    /\ pc = "reader"
    /\ Called("read_i16", 2, read_i16(file, cursor))

ReadU16 ==
    /\ pc = "reader"
    /\ Called("read_u16", 2, read_u16(file, cursor))

ReadI8 ==
    /\ pc = "reader"
    /\ Called("read_i8", 1, read_i8(file, cursor))

ReadU8 ==
    /\ pc = "reader"
    /\ Called("read_u8", 1, read_u8(file, cursor))

NextReader ==
    \/ SeekTo
    \/ Skip
    \/ ReadExact
    \/ ReadI32
    \/ ReadU32
    \/ ReadI16
    \/ ReadU16
    \/ ReadI8
    \/ ReadU8

SpecReader == InitReader /\ [][NextReader]_vars

(***************************************************************************)
(* The identifier mappings of tables/name.rs called directly, on every     *)
(* 16-bit value.                                                           *)
(***************************************************************************)
IdentifierInputs ==
    [fn : {"PlatformId::from", "PlatformSpecificId::from", "TableFormat::from"},
     arg : 0..65535]

InitIdentifiers ==
    /\ input \in IdentifierInputs
    /\ output = None
    /\ file = <<>>
    /\ cursor = 0
    /\ overflow_checks = FALSE
    /\ pc = "idle"
    /\ offset_table = None
    /\ headers = None
    /\ head_table = None
    /\ name_table = None
    /\ result = None
    /\ reads = <<>>

CallPlatformIdFrom ==
    /\ input.fn = "PlatformId::from"
    /\ output = None
    /\ output' = Ok(PlatformId_from(input.arg))
    /\ NotCalling

CallPlatformSpecificIdFrom ==
    /\ input.fn = "PlatformSpecificId::from"
    /\ output = None
    /\ output' = Ok(PlatformSpecificId_from(input.arg))
    /\ NotCalling

CallTableFormatFrom ==
    /\ input.fn = "TableFormat::from"
    /\ output = None
    /\ output' = Ok(TableFormat_from(input.arg))
    /\ NotCalling

NextIdentifiers ==
    CallPlatformIdFrom \/ CallPlatformSpecificIdFrom \/ CallTableFormatFrom

SpecIdentifiers == InitIdentifiers /\ [][NextIdentifiers]_vars

(***************************************************************************)
(* The end of the record array of Name::from_reader, computed for every    *)
(* 16-bit count in a build with and in a build without overflow checks.    *)
(***************************************************************************)
InitEndOfArray ==
    /\ input \in [fn : {"end_of_array"}, arg : 0..65535]
    /\ output = None
    /\ file = <<>>
    /\ cursor = 0
    /\ overflow_checks \in BOOLEAN
    /\ pc = "idle"
    /\ offset_table = None
    /\ headers = None
    /\ head_table = None
    /\ name_table = None
    /\ result = None
    /\ reads = <<>>

\* let end_of_array: usize = usize::from(6 + count * 12);
ComputeEndOfArray ==
    /\ input.fn = "end_of_array"
    /\ output = None
    /\ output' = end_of_array_of(input.arg, overflow_checks)
    /\ NotCalling

NextEndOfArray == ComputeEndOfArray

SpecEndOfArray == InitEndOfArray /\ [][NextEndOfArray]_vars

(***************************************************************************)
(* The two table decoders called directly on one reader, in either order,  *)
(* with the locations of a decoded directory.                              *)
(***************************************************************************)
\* positions the reader may be at before the first call, one past the end
\* of most files
DecoderCursors == {0, 7, 200}

InitDecoders ==
    /\ \E sc \in BodyScenarios \cup BigNameScenarios :
           /\ file = FileOf(sc)
           /\ headers = TablesHeaders_from_reader(file, 12, sc.n).res.val
    /\ cursor \in DecoderCursors
    /\ overflow_checks \in BOOLEAN
    /\ pc = "decoders"
    /\ offset_table = None
    /\ head_table = None
    /\ name_table = None
    /\ result = None
    /\ input = <<>>
    /\ output = [Head |-> None, Name |-> None]
    /\ reads = <<>>

\* where the caller stands after a decoder has delivered r: a panic unwinds
\* it, otherwise it goes on to the decoder not yet called, if any
AfterDecoder(r, other) ==
    IF r.kind = "Panic" THEN "panicked"
    ELSE IF other # None THEN "returned"
    ELSE "decoders"

\* Head::from_reader(reader, headers.get(RequiredTables::Head).unwrap())
CallHeadDecoder ==
    /\ pc = "decoders"
    /\ output.Head = None
    /\ LET r == Head_from_reader(file, cursor, TablesHeaders_get(headers, "Head").val) IN
       /\ cursor' = r.cursor /\ reads' = reads \o r.reads
       /\ output' = [output EXCEPT !.Head = r.res]
       /\ head_table' = IF r.res.kind = "Ok" THEN r.res.val ELSE head_table
       /\ pc' = AfterDecoder(r.res, output.Name)
    /\ input' = Append(input, "Head")
    /\ UNCHANGED <<file, overflow_checks, offset_table, headers, name_table, result>>

\* Name::from_reader(reader, headers.get(RequiredTables::Name).unwrap())
CallNameDecoder ==
    /\ pc = "decoders"
    /\ output.Name = None
    /\ LET r == Name_from_reader(file, cursor, TablesHeaders_get(headers, "Name").val,
                                 overflow_checks) IN
       /\ cursor' = r.cursor /\ reads' = reads \o r.reads
       /\ output' = [output EXCEPT !.Name = r.res]
       /\ name_table' = IF r.res.kind = "Ok" THEN r.res.val ELSE name_table
       /\ pc' = AfterDecoder(r.res, output.Head)
    /\ input' = Append(input, "Name")
    /\ UNCHANGED <<file, overflow_checks, offset_table, headers, head_table, result>>

NextDecoders == CallHeadDecoder \/ CallNameDecoder

SpecDecoders == InitDecoders /\ [][NextDecoders]_vars

(***************************************************************************)
(* Vocabulary of the properties: what the file holds, read off its bytes,  *)
(* and how far Tables::from_reader has come.                               *)
(***************************************************************************)
\* big-endian values of the file's bytes from the 0-based position o
U16At(o) == file[o + 1] * 256 + file[o + 2]

U32At(o) == ((file[o + 1] * 256 + file[o + 2]) * 256 + file[o + 3]) * 256 + file[o + 4]

\* the table count the offset header announces
TableCount == U16At(4)

\* where record i (1-based) of the directory starts
RecordStart(i) == 12 + 16 * (i - 1)

RecordTag(i) ==
    <<file[RecordStart(i) + 1], file[RecordStart(i) + 2],
      file[RecordStart(i) + 3], file[RecordStart(i) + 4]>>

\* the records that carry the tag of t
RecordsOf(t) == {i \in 1..TableCount : RecordTag(i) = TagText[t]}

LastRecordOf(t) == CHOOSE i \in RecordsOf(t) : \A j \in RecordsOf(t) : j <= i

HeaderAvailable == Len(file) >= 12

DirectoryAvailable == HeaderAvailable /\ Len(file) >= 12 + 16 * TableCount

AllTagsText == \A i \in 1..TableCount : is_utf8(RecordTag(i))

\* the statement of Tables::from_reader has been executed
OffsetTableStepDone == pc # "offset_table"

HeadersStepDone == offset_table # None /\ pc # "headers"

HeadStepDone == headers # None /\ pc # "head_table"

NameStepDone == head_table # None /\ pc # "name_table"

Ended == pc \in {"returned", "panicked"}

(***************************************************************************)
(* Properties.                                                             *)
(***************************************************************************)
\* C1: a directory block of 16 x N bytes whose tags are all text decodes,
\* and the keys of the directory are exactly the registry tags that are the
\* first four bytes of some record: as many entries as distinct recognized
\* tags, none for any other tag, and no error because of one.
C1_DirectoryKeys ==
    (HeadersStepDone /\ DirectoryAvailable /\ AllTagsText) =>
        /\ headers # None
        /\ DOMAIN headers.inner = {t \in RequiredTables : RecordsOf(t) # {}}
        /\ Cardinality(DOMAIN headers.inner)
               = Cardinality({RecordTag(i) : i \in 1..TableCount}
                                 \cap {TagText[t] : t \in RequiredTables})

\* C1 witness: three records, one with a tag outside the registry, decoded
\* to a directory of two entries.
C1_Witness ==
    /\ headers # None
    /\ TableCount = 3
    /\ \E i \in 1..3 : \A t \in RequiredTables : RecordTag(i) # TagText[t]
    /\ Cardinality(DOMAIN headers.inner) = 2

\* C2: the location stored for a tag is the big-endian decoding of bytes
\* 4..16 of the last record that carries the tag (checksum 4..8, offset
\* 8..12, length 12..16).
C2_LastRecordWins ==
    headers # None =>
        \A t \in DOMAIN headers.inner :
            /\ RecordsOf(t) # {}
            /\ LET s == RecordStart(LastRecordOf(t)) IN
               headers.inner[t] = [checksum |-> U32At(s + 4),
                                   offset |-> U32At(s + 8),
                                   length |-> U32At(s + 12)]

\* C2 witness: the tag head is carried by two records with different
\* locations and the directory holds the later one.
C2_Witness ==
    /\ headers # None
    /\ Cardinality(RecordsOf("Head")) >= 2
    /\ \E i \in RecordsOf("Head") :
           /\ i < LastRecordOf("Head")
           /\ U32At(RecordStart(i) + 12) # U32At(RecordStart(LastRecordOf("Head")) + 12)
    /\ headers.inner["Head"].length = U32At(RecordStart(LastRecordOf("Head")) + 12)

\* C3 as stated: a directory block shorter than 16 x N bytes fails with
\* InvalidBufferLength(16 * N, actual), actual being the bytes that follow
\* the offset header.
C3_TruncatedDirectoryIsInvalidBufferLength ==
    (HeadersStepDone /\ ~DirectoryAvailable) =>
        /\ pc = "returned"
        /\ result = Err(InvalidBufferLength(16 * TableCount, Len(file) - 12))

\* C3 amended: a directory block shorter than 16 x N bytes fails with the
\* reader's read failure (ReadError of an unexpected end of file), which
\* carries no byte counts, and no directory is returned.
C3_TruncatedDirectoryIsReadError ==
    (HeadersStepDone /\ ~DirectoryAvailable) =>
        /\ pc = "returned"
        /\ result = Err(ReadError("UnexpectedEof"))
        /\ headers = None

\* C3 witness: the file ends inside the directory's records and the decoder
\* has failed.
C3_Witness ==
    /\ HeadersStepDone
    /\ TableCount >= 1
    /\ Len(file) > 12
    /\ Len(file) < 12 + 16 * TableCount
    /\ pc = "returned"
    /\ result.kind = "Err"

\* C5 as stated: with fewer than 12 bytes in the file the offset header
\* decoder fails with InvalidBufferLength(12, actual).
C5_ShortHeaderIsInvalidBufferLength ==
    (OffsetTableStepDone /\ ~HeaderAvailable) =>
        /\ pc = "returned"
        /\ result = Err(InvalidBufferLength(12, Len(file)))

\* C5 amended: the offset header is read from absolute offset 0 wherever
\* the cursor was (the five fields are those of file bytes 0..12 and the
\* cursor is left at 12); with fewer than 12 bytes in the file the decoder
\* fails with the reader's read failure (ReadError of an unexpected end of
\* file), and InvalidBufferLength is never what Tables::from_reader returns.
C5_HeaderFromOffsetZero ==
    /\ (OffsetTableStepDone /\ ~HeaderAvailable) =>
           /\ pc = "returned"
           /\ result = Err(ReadError("UnexpectedEof"))
           /\ offset_table = None
    /\ (OffsetTableStepDone /\ HeaderAvailable) =>
           offset_table = [scalar_type |-> U32At(0), num_tables |-> U16At(4),
                           search_range |-> U16At(6), entry_selector |-> U16At(8),
                           range_shift |-> U16At(10)]
    /\ pc = "headers" => cursor = 12
    /\ (pc = "returned" /\ result.kind = "Err") =>
           result.err.type # "TableEncodingError::InvalidBufferLength"

\* C5 witness: a file of fewer than 12 bytes, the decoder has failed.
C5_Witness ==
    /\ OffsetTableStepDone
    /\ Len(file) > 0
    /\ Len(file) < 12
    /\ pc = "returned"
    /\ result.kind = "Err"

\* C6: when the tag of head or name is absent from the directory,
\* Tables::from_reader returns a MissingRequiredTable failure value and
\* does not abort.
C6_MissingTableIsFailureValue ==
    /\ (HeadStepDone /\ "Head" \notin DOMAIN headers.inner) =>
           /\ pc = "returned"
           /\ result.kind = "Err"
           /\ result.err.type = "MissingRequiredTable"
    /\ (NameStepDone /\ "Name" \notin DOMAIN headers.inner) =>
           /\ pc = "returned"
           /\ result.kind = "Err"
           /\ result.err.type = "MissingRequiredTable"

\* C7: a record whose tag bytes are no UTF-8 makes the directory decoder
\* return a tag decode failure as a value, without a panic and without a
\* directory.
C7_InvalidTagIsFailureValue ==
    (HeadersStepDone /\ DirectoryAvailable /\ ~AllTagsText) =>
        /\ pc = "returned"
        /\ result.kind = "Err"
        /\ result.err.type = "InvalidTag"
        /\ headers = None

\* signed big-endian values of the file's bytes; the 64-bit one for values
\* whose upper four bytes are the sign extension of the lower four
S16At(o) == IF U16At(o) >= 32768 THEN U16At(o) - 65536 ELSE U16At(o)

S64At(o) ==
    IF file[o + 5] < 128 THEN U32At(o + 4)
    ELSE ((((file[o + 5] - 256) * 256 + file[o + 6]) * 256) + file[o + 7]) * 256
             + file[o + 8]

\* C8: every field of the decoded head table is the big-endian value of
\* its own byte range of the window that starts at the location's offset,
\* the ranges are pairwise disjoint, exactly location.length bytes are
\* read, and no value (magic number, checksum) is rejected.
C8_HeadFields ==
    /\ \A i, j \in 1..Len(HeadLayout) : i < j => HeadLayout[i][3] <= HeadLayout[j][2]
    /\ head_table # None =>
           LET o == headers.inner["Head"].offset IN
           /\ head_table.version = U32At(o)
           /\ head_table.font_revision = U32At(o + 4)
           /\ head_table.checksum_adjustment = U32At(o + 8)
           /\ head_table.magic_number = U32At(o + 12)
           /\ head_table.flags = [bits |-> U16At(o + 16)]
           /\ head_table.units_per_em = U16At(o + 18)
           /\ head_table.created = S64At(o + 20)
           /\ head_table.modified = S64At(o + 28)
           /\ head_table.x_min = S16At(o + 36)
           /\ head_table.y_min = S16At(o + 38)
           /\ head_table.x_max = S16At(o + 40)
           /\ head_table.y_max = S16At(o + 42)
           /\ head_table.mac_style = U16At(o + 44)
           /\ head_table.lowest_rec_ppem = U16At(o + 46)
           /\ head_table.font_direction_hint = S16At(o + 48)
           /\ head_table.index_to_loc_format = S16At(o + 50)
           /\ head_table.glyph_data_format = S16At(o + 52)
    /\ pc = "name_table" =>
           cursor = headers.inner["Head"].offset + headers.inner["Head"].length
    /\ (HeadStepDone /\ "Head" \in DOMAIN headers.inner
            /\ headers.inner["Head"].length >= 54
            /\ headers.inner["Head"].offset + headers.inner["Head"].length <= Len(file))
           => head_table # None

\* C8 witness: a decoded head table whose magic number is not 0x5F0F3CF5,
\* whose index_to_loc_format and glyph_data_format differ and which has a
\* negative bounding-box value.
C8_Witness ==
    /\ head_table # None
    /\ head_table.magic_number # 1594834165
    /\ head_table.index_to_loc_format # head_table.glyph_data_format
    /\ head_table.x_min < 0

\* C10: when fewer than 54 bytes are available for the head table, also
\* when the location's length is below 54, the head decoder returns a read
\* failure as a value: no panic, no Head value.
C10_ShortHeadIsReadFailure ==
    (/\ HeadStepDone
     /\ "Head" \in DOMAIN headers.inner
     /\ \/ headers.inner["Head"].length < 54
        \/ headers.inner["Head"].offset + headers.inner["Head"].length > Len(file))
    => /\ pc = "returned"
       /\ result.kind = "Err"
       /\ result.err.type = "VeroBufReaderError::ReadError"
       /\ head_table = None

\* the name table's window, read off the directory, and what its bytes hold
NameLoc == headers.inner["Name"]

\* Name::from_reader has been called, by Tables::from_reader or directly
NameDecoderCalled ==
    IF output = None THEN NameStepDone /\ "Name" \in DOMAIN headers.inner
    ELSE output.Name # None

NameWindowAvailable == NameLoc.offset + NameLoc.length <= Len(file)

NameCount == U16At(NameLoc.offset + 2)

\* the record the 12 bytes from the 0-based file position o stand for
NameRecordAt(o) ==
    [platform_id |-> PlatformId_from(U16At(o)),
     platform_specific_id |-> PlatformSpecificId_from(U16At(o + 2)),
     language_id |-> U16At(o + 4),
     name_id |-> U16At(o + 6),
     length |-> U16At(o + 8),
     offset |-> U16At(o + 10)]

\* the fields of the decoded name table are those of the window's bytes
NameLayoutHolds ==
    LET o == NameLoc.offset
        c == NameCount
    IN  /\ name_table # None
        /\ name_table.format = TableFormat_from(U16At(o))
        /\ name_table.count = c
        /\ name_table.string_offset = U16At(o + 4)
        /\ Len(name_table.name_records) = c
        /\ \A i \in 1..c :
               name_table.name_records[i] = NameRecordAt(o + 6 + 12 * (i - 1))
        /\ name_table.name = SubSeq(file, o + 6 + 12 * c + 1, o + NameLoc.length)

\* C11: for a name table of L bytes whose count c has 6 + 12 * c <= L, the
\* name decoder yields format, count and string_storage_offset from bytes
\* 0..6, exactly c records, record i from bytes 6 + 12 * i .. 6 + 12 * (i + 1)
\* in six 2-byte fields, and the pool as bytes 6 + 12 * c .. L verbatim.
C11_NameLayout ==
    (/\ NameDecoderCalled
     /\ NameWindowAvailable
     /\ NameLoc.length >= 6
     /\ 6 + 12 * NameCount <= NameLoc.length)
    => NameLayoutHolds

\* the same for the counts whose 6 + 12 * c is at most 65535
C11_NameLayoutOfSmallCounts ==
    (/\ NameDecoderCalled
     /\ NameWindowAvailable
     /\ NameLoc.length >= 6
     /\ 6 + 12 * NameCount <= NameLoc.length
     /\ NameCount <= 5460)
    => NameLayoutHolds

\* a name table of two records and a pool of four bytes has been decoded
C11_SmallCountsReached ==
    /\ name_table # None
    /\ Len(name_table.name_records) = 2
    /\ name_table.name = NamePool

\* C12: a name table whose 6 + count * 12 passes its length, or which is
\* shorter than its 6-byte header, makes the name decoder return a failure
\* value: no panic, no Name value with fewer records than announced.
C12_ShortNameIsFailureValue ==
    (/\ NameDecoderCalled
     /\ NameWindowAvailable
     /\ \/ NameLoc.length < 6
        \/ 6 + 12 * NameCount > NameLoc.length)
    => /\ pc = "returned"
       /\ result.kind = "Err"
       /\ name_table = None

\* what each decoder delivers when it is the first to be called on a reader
\* at position 0
HeadDecodedFirst == Head_from_reader(file, 0, headers.inner["Head"]).res

NameDecodedFirst == Name_from_reader(file, 0, NameLoc, overflow_checks).res

\* C15: Head then Name on one reader gives the same head result and the
\* same name result (value or failure) as Name then Head, wherever the
\* cursor was before: in either order the two results are those each
\* decoder gives when it is called first.
C15_OrderIrrelevant ==
    (output # None /\ pc # "decoders") =>
        /\ output.Head = HeadDecodedFirst
        /\ output.Name = NameDecodedFirst

\* every result a decoder has delivered is the one it gives when called
\* first, wherever the cursor was
C15_DeliveredResultsIgnoreCursor ==
    output # None =>
        /\ output.Head # None => output.Head = HeadDecodedFirst
        /\ output.Name # None => output.Name = NameDecodedFirst

\* both orders have delivered two results, from a cursor that was not 0
C15_BothOrdersReached ==
    /\ output # None
    /\ pc = "returned"
    /\ output.Head.kind = "Ok"
    /\ output.Name.kind = "Ok"
    /\ reads[1][1] # 0

\* the variants in the order of their numbers
PlatformIdVariants == <<"Unicode", "Macintosh", "Reserved", "Microsoft">>

PlatformSpecificIdVariants ==
    <<"Version1", "Version1_1", "Iso10646", "Unicode2_0Bmp", "Unicode2_0NonBmp">>

TableFormatVariants == <<"TrueType", "OpenType">>

\* C13: the identifier mappings are total: platform_id 0..3 map to
\* Unicode, Macintosh, Reserved, Microsoft, platform_specific_id 0..4 to
\* their five variants, format 0 and 1 to TrueType and OpenType, and every
\* other 16-bit value to Unknown, which for the format keeps the raw value.
C13_IdentifierMappings ==
    (input # None /\ output # None) =>
        LET v == input.arg IN
        /\ output.kind = "Ok"
        /\ input.fn = "PlatformId::from" =>
               output.val = IF v < 4 THEN PlatformIdVariants[v + 1] ELSE "Unknown"
        /\ input.fn = "PlatformSpecificId::from" =>
               output.val = IF v < 5 THEN PlatformSpecificIdVariants[v + 1]
                            ELSE "Unknown"
        /\ input.fn = "TableFormat::from" =>
               /\ output.val.variant = IF v < 2 THEN TableFormatVariants[v + 1]
                                       ELSE "Unknown"
               /\ v >= 2 => output.val.raw = v

\* C13 witness: platform_specific_id 4 has been mapped to its variant
C13_Witness ==
    /\ input # None
    /\ input.fn = "PlatformSpecificId::from"
    /\ input.arg = 4
    /\ output = Ok("Unicode2_0NonBmp")

\* other values have been mapped: a platform_id and a format to Unknown
C13_UnknownReached ==
    /\ input # None
    /\ output # None
    /\ \/ input.fn = "PlatformId::from" /\ input.arg = 65535 /\ output.val = "Unknown"
       \/ /\ input.fn = "TableFormat::from"
          /\ output.val = [variant |-> "Unknown", raw |-> 7]

\* C19: for every 16-bit count the end of the record array is the number
\* 6 + count * 12: the computation neither wraps modulo 2^16 nor aborts.
C19_EndOfArrayIsExact ==
    (input # None /\ output # None) => output = Ok(6 + input.arg * 12)

\* the end of the record array is exact for the counts up to 5460
C19_EndOfArrayOfSmallCounts ==
    (input # None /\ output # None /\ input.arg <= 5460) =>
        output = Ok(6 + input.arg * 12)

\* the window <<start, length>> of a table, read off the last record of the
\* file's directory that carries its tag
WindowOf(t) ==
    <<U32At(RecordStart(LastRecordOf(t)) + 8), U32At(RecordStart(LastRecordOf(t)) + 12)>>

\* C14: Tables::from_reader reads in a fixed order over fixed windows:
\* first bytes [0, 12), then [12, 12 + 16 * N) for the table count N of the
\* header, then [offset, offset + length) of the head location, then of the
\* name location, each read after the step before it has succeeded; with
\* three records and head at offset 44 with length 54 the directory holds
\* that location and the head decoder reads [44, 98).
C14_FixedOrderFixedWindows ==
    /\ Len(reads) <= 4
    /\ pc = "offset_table" => Len(reads) = 0
    /\ pc = "headers" => Len(reads) = 1
    /\ pc = "head_table" => Len(reads) = 2
    /\ pc = "name_table" => Len(reads) = 3
    /\ Len(reads) >= 1 => reads[1] = <<0, 12>>
    /\ Len(reads) >= 2 =>
           /\ offset_table # None
           /\ reads[2] = <<12, 16 * TableCount>>
    /\ Len(reads) >= 3 =>
           /\ headers # None
           /\ reads[3] = WindowOf("Head")
           /\ reads[3] = <<headers.inner["Head"].offset, headers.inner["Head"].length>>
    /\ Len(reads) >= 4 =>
           /\ head_table # None
           /\ reads[4] = WindowOf("Name")
    /\ (HeadStepDone /\ TableCount = 3 /\ RecordsOf("Head") # {}
            /\ WindowOf("Head") = <<44, 54>>) =>
           /\ headers.inner["Head"].offset = 44
           /\ headers.inner["Head"].length = 54
           /\ reads[3] = <<44, 54>>
           /\ head_table # None => cursor >= 98

\* C14 witness: in a file of three records with head at offset 44 and
\* length 54 the head decoder has read [44, 98) and all four reads are done.
C14_Witness ==
    /\ TableCount = 3
    /\ Len(reads) = 4
    /\ reads[3] = <<44, 54>>
    /\ headers.inner["Head"].offset = 44
    /\ head_table # None
    /\ pc = "returned"

\* every statement of Tables::from_reader has delivered its value
EveryStepSucceeded ==
    /\ offset_table # None
    /\ headers # None
    /\ head_table # None
    /\ name_table # None

\* C16: Tables::from_reader fails fast and all-or-nothing: it ends by
\* returning, with the first failure met in the order header, directory,
\* head, name and nothing read after it, or with Ok exactly when every step
\* has succeeded; no partially populated Tables value is returned.
C16_FailFastAllOrNothing ==
    Ended =>
        /\ pc = "returned"
        /\ result.kind \in {"Ok", "Err"}
        /\ result.kind = "Ok" <=> EveryStepSucceeded
        /\ offset_table = None => Len(reads) = 1 /\ headers = None
        /\ headers = None => Len(reads) <= 2 /\ head_table = None
        /\ head_table = None => Len(reads) <= 3 /\ name_table = None

\* what holds of it: nothing is read or decoded after the step that did not
\* deliver its value, and Ok is returned exactly when every step succeeded
C16_NothingAfterFirstFailure ==
    Ended =>
        /\ (pc = "returned" /\ result.kind = "Ok") <=> EveryStepSucceeded
        /\ result.kind = "Ok" =>
               result.val = [offset |-> offset_table, head_table |-> head_table,
                             headers |-> headers]
        /\ offset_table = None => Len(reads) = 1 /\ headers = None
        /\ headers = None => Len(reads) <= 2 /\ head_table = None
        /\ head_table = None => Len(reads) <= 3 /\ name_table = None

\* a failure value has been returned by the directory step
C16_FailureReached ==
    /\ pc = "returned"
    /\ result.kind = "Err"
    /\ offset_table # None
    /\ headers = None
    /\ Len(reads) = 2

\* the offset header, the directory and the head table of the file are
\* well formed: all there, text tags, a head record of at least 54 bytes
HeadWellFormed ==
    /\ DirectoryAvailable
    /\ AllTagsText
    /\ RecordsOf("Head") # {}
    /\ WindowOf("Head")[2] >= 54
    /\ WindowOf("Head")[1] + WindowOf("Head")[2] <= Len(file)

\* C18: for every file whose offset header, directory and head table are
\* well formed the aggregate delivers the decoded head table, whether or
\* not the name table is in the directory or decodes.
C18_HeadWithoutName ==
    (Ended /\ HeadWellFormed) =>
        /\ pc = "returned"
        /\ result.kind = "Ok"
        /\ result.val.head_table = head_table
        /\ head_table # None

\* the head table itself is decoded in every such file
C18_HeadDecoded ==
    (HeadStepDone /\ HeadWellFormed) => head_table # None

\* the big-endian value of the n bytes of the file from the 0-based position p
ValueAt(p, n) ==
    IF n = 4 THEN U32At(p) ELSE U16At(p)

\* what C17 says of seek_to and of the scalar reads, the same as stated and
\* as amended: seek_to(q) leaves the cursor at q, and read_u32 / read_u16 at
\* the cursor p return the big-endian value of bytes [p, p + n) and leave
\* the cursor at p + n, or fail when the file ends before p + n
SeekAndScalarReads ==
    LET p == input.at
        L == Len(file)
    IN  /\ input.fn = "seek_to" => output.kind = "Ok" /\ cursor = input.arg
        /\ input.fn \in {"read_u32", "read_u16"} =>
               LET n == input.arg IN
               /\ output.kind = "Ok" <=> p + n <= L
               /\ output.kind = "Ok" => output.val = ValueAt(p, n) /\ cursor = p + n
               /\ output.kind # "Ok" => output.kind = "Err"

\* C17 as stated: after any sequence of calls read_exact of n bytes at the
\* cursor p succeeds if and only if p + n <= L, then returning bytes
\* [p, p + n) and leaving the cursor at p + n, and fails otherwise;
\* seek_to(q) moves the cursor to q and skip(d) to p + d; read_u32 and
\* read_u16 return the big-endian value of the next 4 and 2 bytes.
C17_ReadSucceedsIffInsideFile ==
    (pc = "reader" /\ input # None) =>
        LET p == input.at
            L == Len(file)
        IN  /\ input.fn = "read_exact" =>
                   LET n == input.arg IN
                   /\ output.kind = "Ok" <=> p + n <= L
                   /\ output.kind = "Ok" =>
                          output.val = SubSeq(file, p + 1, p + n) /\ cursor = p + n
                   /\ output.kind # "Ok" => output.kind = "Err"
            /\ input.fn = "skip" => cursor = p + input.arg
            /\ SeekAndScalarReads

\* C17 amended: read_exact of n bytes at the cursor p succeeds if and only
\* if n = 0 or p + n <= L (a read of no byte succeeds also when the cursor
\* is past the end), then returning bytes [p, p + n) and leaving the cursor
\* at p + n, and fails otherwise; seek_to(q) moves the cursor to q, also
\* past the end; skip(d) moves it to p + d when p + d >= 0 and fails,
\* leaving the cursor, when p + d < 0; read_u32 and read_u16 return the
\* big-endian value of the next 4 and 2 bytes or fail.
C17_ReaderIsCursor ==
    (pc = "reader" /\ input # None) =>
        LET p == input.at
            L == Len(file)
        IN  /\ input.fn = "read_exact" =>
                   LET n == input.arg IN
                   /\ output.kind = "Ok" <=> (n = 0 \/ p + n <= L)
                   /\ output.kind = "Ok" =>
                          output.val = SubSeq(file, p + 1, p + n) /\ cursor = p + n
                   /\ output.kind # "Ok" => output.kind = "Err"
            /\ input.fn = "skip" =>
                   IF p + input.arg >= 0
                   THEN output.kind = "Ok" /\ cursor = p + input.arg
                   ELSE output.kind = "Err" /\ cursor = p
            /\ SeekAndScalarReads

\* C17 witness: with the cursor past the last byte a read of no byte has
\* succeeded.
C17_Witness ==
    /\ pc = "reader"
    /\ input # None
    /\ input.fn = "read_exact"
    /\ input.arg = 0
    /\ input.at > Len(file)
    /\ output.kind = "Ok"
    /\ cursor = input.at

\* the documentation examples: read_u32 at 4 gives 20; read_u32 at 8 of 8
\* bytes fails; read_exact of one byte at the end fails
C17_ExamplesReached ==
    /\ pc = "reader"
    /\ input # None
    /\ \/ input.fn = "read_u32" /\ input.at = 4 /\ output = Ok(20)
       \/ input.fn = "read_u32" /\ input.at = 8 /\ output.kind = "Err"
       \/ input.fn = "read_exact" /\ input.at = 5 /\ input.arg = 1
              /\ Len(file) = 5 /\ output.kind = "Err"

\* C4: every 12-byte offset header decodes, whatever its field values, to
\* scalar_type = bytes 0..4, table count = bytes 4..6, search_range = bytes
\* 6..8, entry_selector = bytes 8..10, range_shift = bytes 10..12, all
\* big-endian, and writing the five fields back big-endian in that order
\* gives the 12 bytes again.
C4_OffsetHeaderRoundTrip ==
    (/\ input # None
     /\ input.fn = "OffsetTable::from_buffer"
     /\ output # None
     /\ Len(input.arg) = 12)
    => /\ output.kind = "Ok"
       /\ LET b == input.arg
              v == output.val
          IN  /\ v.scalar_type = ((b[1] * 256 + b[2]) * 256 + b[3]) * 256 + b[4]
              /\ v.num_tables = b[5] * 256 + b[6]
              /\ v.search_range = b[7] * 256 + b[8]
              /\ v.entry_selector = b[9] * 256 + b[10]
              /\ v.range_shift = b[11] * 256 + b[12]
              /\ to_be_bytes(v.scalar_type, 4) \o to_be_bytes(v.num_tables, 2)
                     \o to_be_bytes(v.search_range, 2)
                     \o to_be_bytes(v.entry_selector, 2)
                     \o to_be_bytes(v.range_shift, 2) = b

\* C4 witness: a header whose scalar type is the text "true" and whose
\* 16-bit fields are 3, 0x8001, 0 and 0xFFFF has been decoded.
C4_Witness ==
    /\ input # None
    /\ input.fn = "OffsetTable::from_buffer"
    /\ input.arg = <<116, 114, 117, 101, 0, 3, 128, 1, 0, 0, 255, 255>>
    /\ output # None
    /\ output.kind = "Ok"
    /\ output.val.scalar_type = 1953658213
    /\ output.val.range_shift = 65535

\* C9: the flag word is kept as it is and every accessor is a mask and
\* shift of it: bits() is the word, the predicate of bit k (0..10 and 14)
\* holds exactly when bit k is set, adobe_defined() is bits 11..13; for
\* the word 0x0003 the first two predicates hold and no other.
C9_FlagAccessors ==
    (/\ input # None
     /\ input.fn = "HeadFlags::from_bits"
     /\ output # None)
    => LET w == input.arg
           v == output.val
       IN  /\ v.bits = w
           /\ v.y_value_zero_is_baseline = (w % 2 = 1)
           /\ v.x_pos_leftmost_black_bit_lsb = ((w \div 2) % 2 = 1)
           /\ v.scaled_point_size_differs = ((w \div 4) % 2 = 1)
           /\ v.use_integer_scaling = ((w \div 8) % 2 = 1)
           /\ v.microsoft_scaler_flag = ((w \div 16) % 2 = 1)
           /\ v.vertical_layout = ((w \div 32) % 2 = 1)
           /\ v.must_be_zero = ((w \div 64) % 2 = 1)
           /\ v.requires_linguistic_layout = ((w \div 128) % 2 = 1)
           /\ v.aat_default_metamorphosis = ((w \div 256) % 2 = 1)
           /\ v.strong_rtl_glyphs = ((w \div 512) % 2 = 1)
           /\ v.indic_rearrangement = ((w \div 1024) % 2 = 1)
           /\ v.adobe_defined = (w \div 2048) % 8
           /\ v.generic_symbol_font = ((w \div 16384) % 2 = 1)
           /\ w = 3 =>
                  v = [bits |-> 3,
                       y_value_zero_is_baseline |-> TRUE,
                       x_pos_leftmost_black_bit_lsb |-> TRUE,
                       scaled_point_size_differs |-> FALSE,
                       use_integer_scaling |-> FALSE,
                       microsoft_scaler_flag |-> FALSE,
                       vertical_layout |-> FALSE,
                       must_be_zero |-> FALSE,
                       requires_linguistic_layout |-> FALSE,
                       aat_default_metamorphosis |-> FALSE,
                       strong_rtl_glyphs |-> FALSE,
                       indic_rearrangement |-> FALSE,
                       adobe_defined |-> 0,
                       generic_symbol_font |-> FALSE]

\* C9 witness: the accessors have been read on a word with bits 5, 12, 13
\* and 15 set: vertical_layout holds, must_be_zero does not, adobe_defined
\* is 6.
C9_Witness ==
    /\ input # None
    /\ input.fn = "HeadFlags::from_bits"
    /\ input.arg = 45088
    /\ output # None
    /\ output.val.vertical_layout
    /\ ~output.val.must_be_zero
    /\ output.val.adobe_defined = 6
    /\ ~output.val.generic_symbol_font

====
